---------------------------- MODULE Spec2Model ----------------------------
(***************************************************************************)
(* LineGraph (src/src/afile.tsx): the coordinate-mapping, tick, gridline   *)
(* and dot pipeline of one render pass, as a state machine.                *)
(*                                                                         *)
(* A state holds the props handed to LineGraph and, once the component has *)
(* run, what it computed.  Numbers are exact rationals <<n, d>> (d > 0, in *)
(* lowest terms); data values, pixel sizes and paddings are integers.  The *)
(* scalars of the model are numbers, so every scale is d3's scaleLinear.   *)
(***************************************************************************)
EXTENDS Integers, Sequences, FiniteSets, TLC

VARIABLES props, phase, out

vars == <<props, phase, out>>

---------------------------------------------------------------------------
(* Call by value.  JavaScript evaluates an argument once, before the call; *)
(* Let1(v, F) is F(v) with v evaluated once and handed over as a value.    *)

Let1(v, F(_)) == CHOOSE r \in {F(x) : x \in {v}} : TRUE
Let2(u, v, F(_, _)) == CHOOSE r \in {F(x, y) : x \in {u}, y \in {v}} : TRUE
Let3(u, v, w, F(_, _, _)) ==
    CHOOSE r \in {F(x, y, z) : x \in {u}, y \in {v}, z \in {w}} : TRUE

---------------------------------------------------------------------------
(* Exact rational arithmetic.                                              *)

Abs(n) == IF n < 0 THEN -n ELSE n

RECURSIVE GCD(_, _)
GCD(a, b) == IF b = 0 THEN a ELSE Let1(a % b, LAMBDA m : GCD(b, m))

\* The rational n/d (d # 0) in lowest terms with a positive denominator.
Frac(n, d) ==
    Let3(n, d, GCD(Abs(n), Abs(d)), LAMBDA x, y, g :
        IF y < 0 THEN <<(-x) \div g, (-y) \div g>> ELSE <<x \div g, y \div g>>)

Q(n) == <<n, 1>>

RAdd(a, b) == Let2(a, b, LAMBDA x, y : Frac(x[1] * y[2] + y[1] * x[2], x[2] * y[2]))
RSub(a, b) == Let2(a, b, LAMBDA x, y : Frac(x[1] * y[2] - y[1] * x[2], x[2] * y[2]))
RMul(a, b) == Let2(a, b, LAMBDA x, y : Frac(x[1] * y[1], x[2] * y[2]))
RDiv(a, b) == Let2(a, b, LAMBDA x, y : Frac(x[1] * y[2], x[2] * y[1]))
RLt(a, b) == Let2(a, b, LAMBDA x, y : x[1] * y[2] < y[1] * x[2])
RLe(a, b) == Let2(a, b, LAMBDA x, y : x[1] * y[2] <= y[1] * x[2])
RFloor(a) == Let1(a, LAMBDA x : x[1] \div x[2])
RCeil(a) == Let1(a, LAMBDA x : -((-x[1]) \div x[2]))
RMin(a, b) == Let2(a, b, LAMBDA x, y : IF RLt(x, y) THEN x ELSE y)
RMax(a, b) == Let2(a, b, LAMBDA x, y : IF RLt(y, x) THEN x ELSE y)
\* a lies between b and c, whichever way round they are.
RBetween(a, b, c) ==
    Let3(a, b, c, LAMBDA x, y, z : RLe(RMin(y, z), x) /\ RLe(x, RMax(y, z)))

RECURSIVE Pow10(_)
Pow10(k) == IF k <= 0 THEN 1 ELSE 10 * Pow10(k - 1)

---------------------------------------------------------------------------
(* Props: a record whose optional keys are present or absent.              *)

Has(r, k) == k \in DOMAIN r
Get(r, k, default) == IF k \in DOMAIN r THEN r[k] ELSE default
NoProps == [k \in {} |-> 0]
\* Object spread {...a, ...b}: b's keys win.
Spread(a, b) == b @@ a

---------------------------------------------------------------------------
(* d3-scale's continuous linear scale, as LineGraph uses it.               *)

\* normalize(a, b)(x): the position of x between a and b; a degenerate
\* interval maps every x to 1/2.
normalize(a, b, x) ==
    IF a = b THEN Frac(1, 2) ELSE RDiv(RSub(x, a), RSub(b, a))

\* interpolateNumber(a, b)(t) = a * (1 - t) + b * t
interpolate(a, b, t) ==
    Let1(t, LAMBDA u : RAdd(RMul(a, RSub(Q(1), u)), RMul(b, u)))

\* bimap(domain, range)(x)
bimap(d, r, x) ==
    IF RLt(d[2], d[1])
    THEN interpolate(r[2], r[1], normalize(d[2], d[1], x))
    ELSE interpolate(r[1], r[2], normalize(d[1], d[2], x))

\* scale(x), for a scale [domain |-> <<d0, d1>>, range |-> <<r0, r1>>].
ScaleApply(s, x) == Let2(s, x, LAMBDA sc, v : bimap(sc.domain, sc.range, v))

\* scale.invert(pixel)
ScaleInvert(s, p) == Let2(s, p, LAMBDA sc, v : bimap(sc.range, sc.domain, v))

\* floor(log10(n / d)) for n, d > 0.
RECURSIVE FloorLog10(_, _)
FloorLog10(n, d) ==
    IF n >= 10 * d THEN Let1(10 * d, LAMBDA e : 1 + FloorLog10(n, e))
    ELSE IF n < d THEN Let1(10 * n, LAMBDA m : FloorLog10(m, d) - 1)
    ELSE 0

\* The 1, 2, 5 or 10 that an error = en / ed in [1, 10) rounds to: the
\* thresholds are sqrt(50), sqrt(10) and sqrt(2), compared by squares.
tickFactor(en, ed) ==
    IF en * en >= 50 * ed * ed THEN 10
    ELSE IF en * en >= 10 * ed * ed THEN 5
    ELSE IF en * en >= 2 * ed * ed THEN 2
    ELSE 1

\* d3-array's tickIncrement(start, stop, count) for start < stop: the
\* positive step, or minus the inverse of a step below one; 0 stands for
\* the results that are no finite step (count <= 0, start = stop).
tickIncrement(start, stop, count) ==
    IF count <= 0 \/ ~RLt(start, stop) THEN 0
    ELSE Let1(RDiv(RSub(stop, start), Q(count)), LAMBDA step :
         Let1(FloorLog10(step[1], step[2]), LAMBDA power :
            IF power >= 0
            THEN tickFactor(step[1], step[2] * Pow10(power)) * Pow10(power)
            ELSE -(Pow10(-power)
                     \div tickFactor(step[1] * Pow10(-power), step[2]))))

\* Math.floor(x / step) * step, or Math.floor(x * inc) / inc for step = -inc.
niceFloor(x, step) ==
    IF step > 0 THEN Q(RFloor(RDiv(x, Q(step))) * step)
    ELSE Frac(RFloor(RMul(x, Q(-step))), -step)

\* Math.ceil(x / step) * step, or Math.ceil(x * inc) / inc for step = -inc.
niceCeil(x, step) ==
    IF step > 0 THEN Q(RCeil(RDiv(x, Q(step))) * step)
    ELSE Frac(RCeil(RMul(x, Q(-step))), -step)

\* <<start, stop>> rounded outwards to multiples of step.
niceRound(o, step) == <<niceFloor(o[1], step), niceCeil(o[2], step)>>

\* scale.nice(count) on the domain d: two roundings, the second with the
\* step of the rounded interval; a step that is no finite number leaves
\* the domain as it is.
niceDomain(d, count) ==
    Let1(IF RLt(d[2], d[1]) THEN <<d[2], d[1]>> ELSE d, LAMBDA o :
    Let1(tickIncrement(o[1], o[2], count), LAMBDA step1 :
      IF step1 = 0 THEN d
      ELSE Let1(niceRound(o, step1), LAMBDA o1 :
           Let1(tickIncrement(o1[1], o1[2], count), LAMBDA step2 :
           Let1(IF step2 = 0 THEN o ELSE niceRound(o1, step2), LAMBDA o2 :
              IF RLt(d[2], d[1]) THEN <<o2[2], o2[1]>> ELSE o2)))))

\* The ticks k * step (or k / inc) for k = first .. last.
TickSeq(first, last, step) ==
    [i \in 1..(last - first + 1) |->
        IF step > 0 THEN Q((first + i - 1) * step)
        ELSE Frac(first + i - 1, -step)]

Reverse(s) == [i \in 1..Len(s) |-> s[Len(s) + 1 - i]]

\* scale.ticks(count): the multiples of the step inside the domain d.
scaleTicks(d, count) ==
    IF d[1] = d[2] /\ count > 0 THEN <<d[1]>>
    ELSE
    Let1(IF RLt(d[2], d[1]) THEN <<d[2], d[1]>> ELSE d, LAMBDA o :
    Let1(tickIncrement(o[1], o[2], count), LAMBDA step :
      IF step = 0 THEN <<>>
      ELSE Let2(IF step > 0 THEN RCeil(RDiv(o[1], Q(step)))
                ELSE RCeil(RMul(o[1], Q(-step))),
                IF step > 0 THEN RFloor(RDiv(o[2], Q(step)))
                ELSE RFloor(RMul(o[2], Q(-step))),
                LAMBDA first, last :
                  IF RLt(d[2], d[1]) THEN Reverse(TickSeq(first, last, step))
                  ELSE TickSeq(first, last, step))))

---------------------------------------------------------------------------
(* Module-level constants and helpers of afile.tsx.                        *)

DEFAULT_PADDING_TOP == 10
DEFAULT_PADDING_RIGHT == 10
DEFAULT_PADDING_BOTTOM == 20
DEFAULT_PADDING_LEFT == 20

DEFAULT_XAXIS_TOP_EXTEND == 0
DEFAULT_XAXIS_BOTTOM_EXTEND == 0
DEFAULT_YAXIS_LEFT_EXTEND == 0
DEFAULT_YAXIS_RIGHT_EXTEND == 0

DEFAULT_DOT_PROPS ==
    [fill |-> "lightgray", stroke |-> "darkslategrey", strokeWidth |-> 1, r |-> 5]

DEFAULT_LINE_PROPS == [stroke |-> "gray", strokeWidth |-> 1, fill |-> "#0000"]
DEFAULT_CURVE == "natural"

DEFAULT_OFFSET == [horizontal |-> Q(0), vertical |-> Q(0)]

DEFAULT_AXIS_TEXT_PROPS == [fontSize |-> 12]
DEFAULT_XAXIS_TEXT_PROPS ==
    Spread(DEFAULT_AXIS_TEXT_PROPS, [textAnchor |-> "middle"])
DEFAULT_YAXIS_TEXT_PROPS == DEFAULT_AXIS_TEXT_PROPS

DEFAULT_GRIDLINE_STROKE_TYPE == "solid"
DEFAULT_DASHED_DASHARRAY == "5, 5"
DEFAULT_DOTTED_DASHARRAY == "1, 5"
DEFAULT_DOTTED_WIDTH == 2
DEFAULT_GRIDLINE_LINE_PROPS == [stroke |-> "lightgray"]

\* array.reduce((a, b) => (a < b ? a : b)) over a non-empty array; reduce
\* with no initial value throws on an empty one (see Throws below).
RECURSIVE min(_)
min(array) ==
    IF Len(array) = 1 THEN array[1]
    ELSE Let2(min(SubSeq(array, 1, Len(array) - 1)), array[Len(array)],
              LAMBDA a, b : IF a < b THEN a ELSE b)

RECURSIVE max(_)
max(array) ==
    IF Len(array) = 1 THEN array[1]
    ELSE Let2(max(SubSeq(array, 1, Len(array) - 1)), array[Len(array)],
              LAMBDA a, b : IF a > b THEN a ELSE b)

\* isFunction(val), on the tagged values of the model.
isFunction(val) == Has(val, "kind") /\ val.kind = "function"

\* React.isValidElement(val)
isValidElement(val) == Has(val, "kind") /\ val.kind = "element"

\* The falsy numbers of a `number || default` expression.
Falsy(n) == n = 0

---------------------------------------------------------------------------
(* LineGraph: the destructured props and the chart rectangle.              *)

paddingTop(p) == Get(p, "paddingTop", DEFAULT_PADDING_TOP)
paddingRight(p) == Get(p, "paddingRight", DEFAULT_PADDING_RIGHT)
paddingBottom(p) == Get(p, "paddingBottom", DEFAULT_PADDING_BOTTOM)
\* Mutant: the default taken with ||, so that an explicit 0 is replaced.
paddingLeft_OrDefault(p) ==
    IF Has(p, "paddingLeft") /\ ~Falsy(p.paddingLeft) THEN p.paddingLeft
    ELSE DEFAULT_PADDING_LEFT

paddingLeft(p) == Get(p, "paddingLeft", DEFAULT_PADDING_LEFT)

\* xAxis?.k and yAxis?.k read through these: an absent axis has no keys.
xAxis(p) == Get(p, "xAxis", NoProps)
yAxis(p) == Get(p, "yAxis", NoProps)

chartBottomPixel(p) == p.height - paddingBottom(p)
chartLeftPixel(p) == paddingLeft(p)
chartTopPixel(p) == paddingTop(p)
\* Mutant: the right padding added to the width.
chartRightPixel_PaddingAdded(p) == p.width + paddingRight(p)

chartRightPixel(p) == p.width - paddingRight(p)

\* defaultDomain(key) throws when data is empty.
defaultDomainThrows(p) == Len(p.data) = 0

defaultDomain(p, key) ==
    Let1([i \in 1..Len(p.data) |-> p.data[i][key]], LAMBDA values :
        <<Q(min(values)), Q(max(values))>>)

\* An array is an object, and every object is truthy, the empty array too.
ArrayIsTruthy(array) == Len(array) >= 0

\* Which operand of  xAxis?.visibleX || defaultDomain('x') || []  is taken.
xDomainSource(p) ==
    IF Has(xAxis(p), "visibleX") /\ ArrayIsTruthy(xAxis(p).visibleX)
    THEN "visibleX"
    ELSE IF ArrayIsTruthy(defaultDomain(p, "x")) THEN "defaultDomain"
    ELSE "emptyArray"

\* Mutant: the visible range ignored when the data can give a domain.
xDomain_DataFirst(p) ==
    IF Len(p.data) > 0 THEN defaultDomain(p, "x")
    ELSE <<Q(xAxis(p).visibleX[1]), Q(xAxis(p).visibleX[2])>>

xDomain(p) ==
    IF xDomainSource(p) = "visibleX"
    THEN <<Q(xAxis(p).visibleX[1]), Q(xAxis(p).visibleX[2])>>
    ELSE defaultDomain(p, "x")

yDomain(p) ==
    IF Has(yAxis(p), "visibleY")
    THEN <<Q(yAxis(p).visibleY[1]), Q(yAxis(p).visibleY[2])>>
    ELSE defaultDomain(p, "y")

\* Mutant: defaultDomain evaluated before the || that would skip it.
Throws_Eager(p) == IF defaultDomainThrows(p) THEN "xDomain" ELSE "none"

\* The first statement of LineGraph that throws, if any.
Throws(p) ==
    IF ~Has(xAxis(p), "visibleX") /\ defaultDomainThrows(p) THEN "xDomain"
    ELSE IF ~Has(yAxis(p), "visibleY") /\ defaultDomainThrows(p) THEN "yDomain"
    ELSE "none"

\* Mutant: the guard on nice dropped, every scale niced with the default
\* count.
maybeWithNice_Always(without, axis) ==
    Let1(without, LAMBDA sc :
        [domain |-> niceDomain(sc.domain, 10), range |-> sc.range])

\* nice is absent, true ([kind |-> "true"]) or a number ([kind |-> "number"]).
maybeWithNice(without, axis) ==
    IF ~Has(axis, "nice") THEN without
    ELSE IF axis.nice.kind = "number" /\ Falsy(axis.nice.n) THEN without
    ELSE Let2(without, IF axis.nice.kind = "true" THEN 10 ELSE axis.nice.n,
              LAMBDA sc, count :
                [domain |-> niceDomain(sc.domain, count), range |-> sc.range])

xBeforeNice(p) ==
    [domain |-> xDomain(p),
     range |-> <<Q(chartLeftPixel(p)), Q(chartRightPixel(p))>>]

xScale(p) == maybeWithNice(xBeforeNice(p), xAxis(p))

yBeforeNice(p) ==
    [domain |-> yDomain(p),
     range |-> <<Q(chartBottomPixel(p)), Q(chartTopPixel(p))>>]

yScale(p) == maybeWithNice(yBeforeNice(p), yAxis(p))

---------------------------------------------------------------------------
(* Dots.  The operators below take the scales as s = scaleInfo(p), the     *)
(* pair LineGraph computes once per call.                                  *)

scaleInfo(p) == [x |-> xScale(p), y |-> yScale(p)]


\* A caller's dotProps function, applied: the functions of the model echo
\* their arguments, "toElement" in an element and "toProps" in circle props
\* that also try to set cx and cy.
callDotProps(f, d, x, y, i) ==
    IF f.name = "toElement"
    THEN [kind |-> "element", args |-> <<d, x, y, i>>]
    ELSE [fill |-> "red", cx |-> Q(-1), cy |-> Q(-1), args |-> <<d, x, y, i>>]

\* Mutant: the caller's props spread last, over cx and cy.
dotDatum_CallerLast(p, s, i) ==
    Let3(p.data[i], ScaleApply(s.x, Q(p.data[i].x)), ScaleApply(s.y, Q(p.data[i].y)),
         LAMBDA d, x, y :
    Let1(IF isFunction(Get(p, "dotProps", NoProps))
         THEN callDotProps(p.dotProps, d, x, y, i - 1)
         ELSE Get(p, "dotProps", NoProps), LAMBDA circleProps :
      IF isValidElement(circleProps) THEN circleProps
      ELSE Spread(Spread(DEFAULT_DOT_PROPS, [cx |-> x, cy |-> y, key |-> <<x, y>>]),
                  circleProps)))

\* The body of dotData's map; i counts from 1 here and the callback gets
\* the array index i - 1.
dotDatum(p, s, i) ==
    Let3(p.data[i], ScaleApply(s.x, Q(p.data[i].x)), ScaleApply(s.y, Q(p.data[i].y)),
         LAMBDA d, x, y :
    Let1(IF isFunction(Get(p, "dotProps", NoProps))
         THEN callDotProps(p.dotProps, d, x, y, i - 1)
         ELSE Get(p, "dotProps", NoProps), LAMBDA circleProps :
      IF isValidElement(circleProps) THEN circleProps
      ELSE LET mergedProps == Spread(DEFAULT_DOT_PROPS, circleProps)
           IN  Spread(mergedProps, [cx |-> x, cy |-> y, key |-> <<x, y>>])))

dotData(p, s) == [i \in 1..Len(p.data) |-> dotDatum(p, s, i)]

\* Math.random() answers with any number of [0, 1): two stand for them.
RandomValues == {1, 2}

\* Mutant: the key of Math.random() given after the spread of circleProps.
Circle_KeyLast(circleProps, random) ==
    IF isValidElement(circleProps) THEN circleProps
    ELSE Spread(circleProps, [key |-> random])

\* One entry of dots.map(...) in the returned tree: the element as it is,
\* or  <Circle key={Math.random()} {...circleProps} />  as its props with
\* the key; random is what this call of Math.random() answered.
Circle(circleProps, random) ==
    IF isValidElement(circleProps) THEN circleProps
    ELSE Spread([key |-> random], circleProps)

Circles(dots, randoms) == [i \in 1..Len(dots) |-> Circle(dots[i], randoms[i])]

\* toCurve(curve): a curve is modelled by its name.
toCurve(p) == Get(p, "curve", DEFAULT_CURVE)

\* lineGen(): the path data of d3-shape's line through the projected
\* data with the curve, modelled by the curve and the points it is
\* computed from; null, hence '', for no data.
lineGen(p, s) ==
    IF Len(p.data) = 0 THEN [d |-> ""]
    ELSE [d |-> [curve |-> toCurve(p),
                 points |-> [i \in 1..Len(p.data) |->
                               <<ScaleApply(s.x, Q(p.data[i].x)),
                                 ScaleApply(s.y, Q(p.data[i].y))>>]]]

\* A caller's lineProps function, applied to the data.
callLineProps(f, data) ==
    IF f.name = "toElement"
    THEN [kind |-> "element", args |-> <<data>>]
    ELSE [stroke |-> "blue", args |-> <<data>>]

LineComponent(p, s) ==
    Let1(Spread(lineGen(p, s), DEFAULT_LINE_PROPS), LAMBDA pathProps :
      IF isFunction(Get(p, "lineProps", NoProps))
      THEN Let1(callLineProps(p.lineProps, p.data), LAMBDA newProps :
             IF isValidElement(newProps) THEN newProps
             ELSE Spread(pathProps, newProps))
      ELSE Spread(pathProps, Get(p, "lineProps", NoProps)))

---------------------------------------------------------------------------
(* Ticks, labels and gridlines.                                            *)

\* labels is absent, an array ([kind |-> "array"]) or a number.
TickCount(p, axis) ==
    IF Has(axis, "labels") /\ axis.labels.kind = "number"
    THEN axis.labels.n
    ELSE Len(p.data)

\* Mutant: the count taken as  xAxis?.labels || data.length.
xTickCount_OrLength(p) ==
    IF Has(xAxis(p), "labels") /\ xAxis(p).labels.kind = "number"
         /\ ~Falsy(xAxis(p).labels.n)
    THEN xAxis(p).labels.n
    ELSE Len(p.data)

xTickCount(p) == TickCount(p, xAxis(p))
yTickCount(p) == TickCount(p, yAxis(p))

\* The precision a format specifier states itself, -1 when it states none.
specifierPrecision(specifier) == IF specifier = ".1f" THEN 1 ELSE -1

\* scale.tickFormat(count, specifier): the formatter, as the specifier and
\* the precision it formats with.  The specifier defaults to ",f"; a
\* specifier without a precision takes precisionFixed(tickStep), and keeps
\* d3-format's default of 6 when the step is not finite.
\* precisionFixed(tickStep(start, stop, count)) for count > 0.
precisionFixed(start, stop, count) ==
    IF start = stop THEN 0
    ELSE Let1(tickIncrement(start, stop, count), LAMBDA step :
         Let1(IF step > 0 THEN -FloorLog10(step, 1) ELSE -FloorLog10(1, -step),
              LAMBDA digits : IF digits > 0 THEN digits ELSE 0))

tickFormat(scale, count, axis) ==
    Let1(Get(axis, "formatSpecifier", ",f"), LAMBDA specifier :
      [specifier |-> specifier,
       precision |->
           IF specifierPrecision(specifier) >= 0
           THEN specifierPrecision(specifier)
           ELSE IF count <= 0 THEN 6
           ELSE precisionFixed(RMin(scale.domain[1], scale.domain[2]),
                               RMax(scale.domain[1], scale.domain[2]), count)])

xFormatFunction(p, s) == tickFormat(s.x, xTickCount(p), xAxis(p))
yFormatFunction(p, s) == tickFormat(s.y, yTickCount(p), yAxis(p))

\* formatFunction(tick): the text of a scale-generated tick.
FormatTick(format, tick) == [format |-> format, value |-> tick]

StartExtend(axis, default) ==
    LET g == Get(axis, "gridLineProps", NoProps)
    IN  IF Has(g, "startExtendPixels") /\ ~Falsy(g.startExtendPixels)
        THEN g.startExtendPixels ELSE default

EndExtend(axis, default) ==
    LET g == Get(axis, "gridLineProps", NoProps)
    IN  IF Has(g, "endExtendPixels") /\ ~Falsy(g.endExtendPixels)
        THEN g.endExtendPixels ELSE default

xStartExtend(p) == StartExtend(xAxis(p), DEFAULT_XAXIS_TOP_EXTEND)
xEndExtend(p) == EndExtend(xAxis(p), DEFAULT_XAXIS_BOTTOM_EXTEND)
yStartExtend(p) == StartExtend(yAxis(p), DEFAULT_YAXIS_LEFT_EXTEND)
yEndExtend(p) == EndExtend(yAxis(p), DEFAULT_YAXIS_RIGHT_EXTEND)

\* Mutant: the end extension added along the axis, to the second point's
\* pixelX.
xTickToGridLine_ExtendAlong(p, s, x, pixelX) ==
    Let2(ScaleInvert(s.y, Q(chartTopPixel(p) - xStartExtend(p))),
         ScaleInvert(s.y, Q(chartBottomPixel(p) + xEndExtend(p))),
         LAMBDA y1, y2 :
      [p1 |-> [x |-> x, y |-> y1, pixelX |-> pixelX,
               pixelY |-> ScaleApply(s.y, y1)],
       p2 |-> [x |-> x, y |-> y2, pixelX |-> RAdd(pixelX, Q(xEndExtend(p))),
               pixelY |-> ScaleApply(s.y, y2)]])

xTickToGridLine(p, s, x, pixelX) ==
    Let2(ScaleInvert(s.y, Q(chartTopPixel(p) - xStartExtend(p))),
         ScaleInvert(s.y, Q(chartBottomPixel(p) + xEndExtend(p))),
         LAMBDA y1, y2 :
    Let2(ScaleApply(s.y, y1), ScaleApply(s.y, y2), LAMBDA pixelY1, pixelY2 :
      [p1 |-> [x |-> x, y |-> y1, pixelX |-> pixelX, pixelY |-> pixelY1],
       p2 |-> [x |-> x, y |-> y2, pixelX |-> pixelX, pixelY |-> pixelY2]]))

yTickToGridLine(p, s, y, pixelY) ==
    Let2(ScaleInvert(s.x, Q(chartLeftPixel(p) - yStartExtend(p))),
         ScaleInvert(s.x, Q(chartRightPixel(p) + yEndExtend(p))),
         LAMBDA x1, x2 :
    Let2(ScaleApply(s.x, x1), ScaleApply(s.x, x2), LAMBDA pixelX0, pixelX1 :
      [p1 |-> [x |-> x1, y |-> y, pixelX |-> pixelX0, pixelY |-> pixelY],
       p2 |-> [x |-> x2, y |-> y, pixelX |-> pixelX1, pixelY |-> pixelY]]))

\* pixelY / pixelX is absent, a location name or a number.
xLocationToPixelY(p, location) ==
    IF location = "top" THEN chartTopPixel(p) - 4 ELSE chartBottomPixel(p) + 12

\* xAxis?.pixelY || 'bottom'
xAxisLocation(p) ==
    LET a == xAxis(p)
    IN  IF ~Has(a, "pixelY") THEN [kind |-> "bottom"]
        ELSE IF a.pixelY.kind = "number" /\ Falsy(a.pixelY.n)
             THEN [kind |-> "bottom"]
        ELSE a.pixelY

defaultXAxisPixelY(p) ==
    IF xAxisLocation(p).kind = "number" THEN xAxisLocation(p).n
    ELSE xLocationToPixelY(p, xAxisLocation(p).kind)

yLocationToPixelX(p, location) ==
    IF location = "left" THEN chartLeftPixel(p) - 4 ELSE chartRightPixel(p) + 4

yLocationToAnchor(location) == IF location = "left" THEN "end" ELSE "start"

\* yAxis?.pixelX || 'left'
yAxisLocation(p) ==
    LET a == yAxis(p)
    IN  IF ~Has(a, "pixelX") THEN [kind |-> "left"]
        ELSE IF a.pixelX.kind = "number" /\ Falsy(a.pixelX.n)
             THEN [kind |-> "left"]
        ELSE a.pixelX

defaultYAxisPixelX(p) ==
    IF yAxisLocation(p).kind = "number" THEN yAxisLocation(p).n
    ELSE yLocationToPixelX(p, yAxisLocation(p).kind)

defaultYTextAnchor(p) ==
    IF yAxisLocation(p).kind = "number" THEN "start"
    ELSE yLocationToAnchor(yAxisLocation(p).kind)

\* Mutant: the caller's textProps spread last, over x and y.
xTextLabelProps_CallerLast(p, pixelX, pixelY, offset) ==
    Spread(Spread(DEFAULT_XAXIS_TEXT_PROPS,
                  [x |-> RAdd(pixelX, offset.horizontal),
                   y |-> RAdd(pixelY, offset.vertical)]),
           Get(xAxis(p), "textProps", NoProps))

xTextLabelProps(p, pixelX, pixelY, offset) ==
    Spread(Spread(DEFAULT_XAXIS_TEXT_PROPS, Get(xAxis(p), "textProps", NoProps)),
           [x |-> RAdd(pixelX, offset.horizontal),
            y |-> RAdd(pixelY, offset.vertical)])

yTextLabelProps(p, pixelX, pixelY, offset) ==
    Spread(Spread(Spread(DEFAULT_YAXIS_TEXT_PROPS,
                         [textAnchor |-> defaultYTextAnchor(p)]),
                  Get(yAxis(p), "textProps", NoProps)),
           [x |-> RAdd(pixelX, offset.horizontal),
            y |-> RAdd(pixelY, offset.vertical)])

\* A label is [value |-> an x or y value, text |-> its text].
xLabelToAxisTick(p, s, label, offset) ==
    Let3(Q(defaultXAxisPixelY(p)), ScaleApply(s.x, label.value), label.value,
         LAMBDA pixelY, pixelX, x :
      [x |-> x, y |-> ScaleInvert(s.y, pixelY),
       pixelX |-> pixelX, pixelY |-> pixelY,
       text |-> label.text,
       textProps |-> xTextLabelProps(p, pixelX, pixelY, offset),
       gridLine |-> xTickToGridLine(p, s, x, pixelX)])

yLabelToAxisTick(p, s, label, offset) ==
    Let3(Q(defaultYAxisPixelX(p)), ScaleApply(s.y, label.value), label.value,
         LAMBDA pixelX, pixelY, y :
      [x |-> ScaleInvert(s.x, pixelX), y |-> y,
       pixelX |-> pixelX, pixelY |-> pixelY,
       text |-> label.text,
       textProps |-> yTextLabelProps(p, pixelX, pixelY, offset),
       gridLine |-> yTickToGridLine(p, s, y, pixelY)])

\* A caller's labelPixelOffset function, applied: "byIndex" answers from
\* the index, "byText" from the label's text (one offset for the text "a",
\* one for "b", one for any other text, none for a label without a text)
\* and "byValue" from the label's value.
callPixelOffset(f, label, index) ==
    IF f.name = "byIndex"
    THEN [horizontal |-> Q(index + 1), vertical |-> Q(2 * index + 3)]
    ELSE IF f.name = "byText"
    THEN [horizontal |->
              IF ~Has(label, "text") THEN Q(0)
              ELSE IF ToString(label.text) = ToString("a") THEN Q(6)
              ELSE IF ToString(label.text) = ToString("b") THEN Q(7)
              ELSE Q(8),
          vertical |-> Q(index)]
    ELSE [horizontal |-> label.value, vertical |-> RSub(Q(0), label.value)]

\* isXPixelOffset / isYPixelOffset: an object whose horizontal and vertical
\* are both numbers.
isPixelOffset(axis) ==
    /\ Has(axis, "labelPixelOffset")
    /\ Has(axis.labelPixelOffset, "horizontal")
    /\ Has(axis.labelPixelOffset, "vertical")

LabelToPixelOffset(label, index, axis) ==
    IF Has(axis, "labelPixelOffset") /\ isFunction(axis.labelPixelOffset)
    THEN callPixelOffset(axis.labelPixelOffset, label, index)
    ELSE IF isPixelOffset(axis)
    THEN [horizontal |-> Q(axis.labelPixelOffset.horizontal),
          vertical |-> Q(axis.labelPixelOffset.vertical)]
    ELSE DEFAULT_OFFSET

xLabelToPixelOffset(p, label, index) == LabelToPixelOffset(label, index, xAxis(p))
yLabelToPixelOffset(p, label, index) == LabelToPixelOffset(label, index, yAxis(p))

xTickToAxisTick(p, s, tick, index) ==
    Let1([value |-> tick, text |-> FormatTick(xFormatFunction(p, s), tick)],
         LAMBDA tempLabel :
      xLabelToAxisTick(p, s, tempLabel, xLabelToPixelOffset(p, tempLabel, index)))

yTickToAxisTick(p, s, tick, index) ==
    Let1([value |-> tick, text |-> FormatTick(yFormatFunction(p, s), tick)],
         LAMBDA tempLabel :
      yLabelToAxisTick(p, s, tempLabel, yLabelToPixelOffset(p, tempLabel, index)))

\* labels instanceof Array
LabelsAreArray(axis) == Has(axis, "labels") /\ axis.labels.kind = "array"

\* xTicks: the labels array itself, or xScale.ticks(xTickCount).  An
\* element is [value |-> v, text |-> t] for a label (in the props,
\* [x |-> v, text |-> t]) and [value |-> v] for a bare scalar of the scale.
ScalarTicks(ticks) == [i \in 1..Len(ticks) |-> [value |-> ticks[i]]]

xTicks(p, s) ==
    IF LabelsAreArray(xAxis(p))
    THEN [i \in 1..Len(xAxis(p).labels.labels) |->
            [value |-> Q(xAxis(p).labels.labels[i].x),
             text |-> xAxis(p).labels.labels[i].text]]
    ELSE ScalarTicks(scaleTicks(s.x.domain, xTickCount(p)))

yTicks(p, s) ==
    IF LabelsAreArray(yAxis(p))
    THEN [i \in 1..Len(yAxis(p).labels.labels) |->
            [value |-> Q(yAxis(p).labels.labels[i].y),
             text |-> yAxis(p).labels.labels[i].text]]
    ELSE ScalarTicks(scaleTicks(s.y.domain, yTickCount(p)))

\* isXAxisLabel / isYAxisLabel: the element has a text (a string).
isAxisLabel(val) == Has(val, "text")

\* toXAxisTicks(ticks) / toYAxisTicks(ticks); the map's index counts from 0.
toXAxisTicks(p, s, ticks) ==
    [i \in 1..Len(ticks) |->
        IF isAxisLabel(ticks[i])
        THEN xLabelToAxisTick(p, s, ticks[i], xLabelToPixelOffset(p, ticks[i], i - 1))
        ELSE xTickToAxisTick(p, s, ticks[i].value, i - 1)]

toYAxisTicks(p, s, ticks) ==
    [i \in 1..Len(ticks) |->
        IF isAxisLabel(ticks[i])
        THEN yLabelToAxisTick(p, s, ticks[i], yLabelToPixelOffset(p, ticks[i], i - 1))
        ELSE yTickToAxisTick(p, s, ticks[i].value, i - 1)]

xAxisTicks(p, s) == Let1(xTicks(p, s), LAMBDA ticks : toXAxisTicks(p, s, ticks))
yAxisTicks(p, s) == Let1(yTicks(p, s), LAMBDA ticks : toYAxisTicks(p, s, ticks))

toStrokeArray(gridLineProps) ==
    LET strokeType == Get(gridLineProps, "strokeType", DEFAULT_GRIDLINE_STROKE_TYPE)
    IN  IF strokeType = "dashed"
        THEN [strokeDasharray |-> DEFAULT_DASHED_DASHARRAY]
        ELSE IF strokeType = "dotted"
        THEN [strokeDasharray |-> DEFAULT_DOTTED_DASHARRAY,
              strokeLinecap |-> "round",
              strokeWidth |-> DEFAULT_DOTTED_WIDTH]
        ELSE IF strokeType = "none"
        THEN [stroke |-> "#0000"]
        ELSE NoProps

\* Mutant: the descriptor spread last, over the caller's gridLineProps.
GridLines_DescriptorLast(ticks, gridLineProps) ==
    Let1(Spread(Spread(DEFAULT_GRIDLINE_LINE_PROPS, gridLineProps),
                toStrokeArray(gridLineProps)),
         LAMBDA mergedProps :
       [i \in 1..Len(ticks) |->
           Spread([x1 |-> ticks[i].gridLine.p1.pixelX,
                   x2 |-> ticks[i].gridLine.p2.pixelX,
                   y1 |-> ticks[i].gridLine.p1.pixelY,
                   y2 |-> ticks[i].gridLine.p2.pixelY],
                  mergedProps)])

\* The <Line> elements of XGridLines / YGridLines, as their props.
GridLines(ticks, gridLineProps) ==
    Let1(Spread(Spread(DEFAULT_GRIDLINE_LINE_PROPS, toStrokeArray(gridLineProps)),
                gridLineProps),
         LAMBDA mergedProps :
       [i \in 1..Len(ticks) |->
           Spread([x1 |-> ticks[i].gridLine.p1.pixelX,
                   x2 |-> ticks[i].gridLine.p2.pixelX,
                   y1 |-> ticks[i].gridLine.p1.pixelY,
                   y2 |-> ticks[i].gridLine.p2.pixelY],
                  mergedProps)])

XGridLines(p, ticks) == GridLines(ticks, Get(xAxis(p), "gridLineProps", NoProps))
YGridLines(p, ticks) == GridLines(ticks, Get(yAxis(p), "gridLineProps", NoProps))

---------------------------------------------------------------------------
(* One render pass.                                                        *)

\* What LineGraph computes from its props when nothing throws.
LineGraph(p) ==
    Let1(scaleInfo(p), LAMBDA s :
    Let2(xAxisTicks(p, s), yAxisTicks(p, s), LAMBDA xt, yt :
      [xScale |-> s.x,
       yScale |-> s.y,
       xBeforeNice |-> xBeforeNice(p),
       yBeforeNice |-> yBeforeNice(p),
       xDomainSource |-> xDomainSource(p),
       dots |-> dotData(p, s),
       path |-> LineComponent(p, s),
       xAxisTicks |-> xt,
       yAxisTicks |-> yt,
       xGridLines |-> XGridLines(p, xt),
       yGridLines |-> YGridLines(p, yt)]))

\* The element trees a call can return: what LineGraph computes, and the
\* dots' elements for every answer Math.random() can give for each dot.
LineGraphElements(p) ==
    Let1(LineGraph(p), LAMBDA g :
      {Spread(g, [circles |-> Circles(g.dots, randoms)]) :
          randoms \in [1..Len(g.dots) -> RandomValues]})

NoOutput == [none |-> TRUE]

\* The host calls LineGraph(props) and it returns its element tree.
Render ==
    /\ phase = "props"
    /\ Throws(props) = "none"
    /\ out' \in LineGraphElements(props)
    /\ phase' = "rendered"
    /\ UNCHANGED props

\* The host calls LineGraph(props) and the error of min/max's reduce over
\* the empty array leaves it: nothing catches it, nothing is returned.
RenderThrows ==
    /\ phase = "props"
    /\ Throws(props) # "none"
    /\ out' = [error |-> Throws(props)]
    /\ phase' = "threw"
    /\ UNCHANGED props

Next == Render \/ RenderThrows

\* The host calls LineGraph again with the props it called it with before.
Rerender ==
    /\ phase \in {"rendered", "rerendered"}
    /\ out' \in LineGraphElements(props)
    /\ phase' = "rerendered"
    /\ UNCHANGED props

---------------------------------------------------------------------------
(* The props the specifications draw from.                                 *)

MaxLen == 2

RECURSIVE SeqsUpTo(_, _)
SeqsUpTo(S, n) ==
    IF n = 0 THEN {<<>>}
    ELSE LET shorter == SeqsUpTo(S, n - 1)
         IN  shorter \cup {Append(s, e) : s \in {t \in shorter : Len(t) = n - 1}, e \in S}

Datum == [x : {3, 48}, y : {-7, 26}]
Data == SeqsUpTo(Datum, MaxLen)

\* Width, height and paddings: the default paddings, explicit zeros, some
\* paddings given, and a size the default paddings use up (the chart has
\* no width and its bottom lies above its top).
Frames ==
    {[width |-> 100, height |-> 100],
     [width |-> 100, height |-> 100,
      paddingTop |-> 0, paddingRight |-> 0, paddingBottom |-> 0, paddingLeft |-> 0],
     [width |-> 100, height |-> 60, paddingTop |-> 7, paddingLeft |-> 5],
     [width |-> 30, height |-> 20]}

NiceTrue == [nice |-> [kind |-> "true"]]
NiceNumber(n) == [nice |-> [kind |-> "number", n |-> n]]

\* An axis entry of the props: absent when the axis has no option.
AxisProp(key, axis) == IF axis = NoProps THEN NoProps ELSE key :> axis

MkProps(data, frame, xa, ya, rest) ==
    [data |-> data] @@ frame @@ AxisProp("xAxis", xa)
        @@ AxisProp("yAxis", ya) @@ rest

InitWith(P) == props \in P /\ phase = "props" /\ out = NoOutput

\* Scales: sizes, paddings, visible ranges and nicing.
XScaleAxes ==
    {v @@ n : v \in {NoProps, [visibleX |-> <<5, 40>>], [visibleX |-> <<40, 5>>],
                     [visibleX |-> <<48, 48>>]},
              n \in {NoProps, NiceTrue, NiceNumber(3)}}
      \cup {NiceNumber(0)}

YScaleAxes ==
    {NoProps, [visibleY |-> <<0, 20>>], [visibleY |-> <<26, 26>>],
     NiceTrue, NiceNumber(2), [visibleY |-> <<20, -3>>] @@ NiceNumber(2)}

\* data=[{x:0,y:0},{x:10,y:10}], width=100, height=100, every padding 0.
ExampleProps ==
    [data |-> <<[x |-> 0, y |-> 0], [x |-> 10, y |-> 10]>>,
     width |-> 100, height |-> 100,
     paddingTop |-> 0, paddingRight |-> 0, paddingBottom |-> 0, paddingLeft |-> 0]

ScaleProps ==
    {MkProps(d, f, xa, ya, NoProps) :
        d \in Data, f \in Frames, xa \in XScaleAxes, ya \in YScaleAxes}
      \cup {ExampleProps}

InitScale == InitWith(ScaleProps)
SpecScale == InitScale /\ [][Next]_vars

\* Ticks and gridlines: labels as arrays and counts, gridline extensions,
\* format specifiers, label offsets.
LabelCount(n) == [labels |-> [kind |-> "number", n |-> n]]
XLabelArray ==
    [labels |-> [kind |-> "array",
                 labels |-> <<[x |-> 3, text |-> "a"], [x |-> 60, text |-> "b"]>>]]
YLabelArray ==
    [labels |-> [kind |-> "array",
                 labels |-> <<[y |-> 26, text |-> "hi"], [y |-> 0, text |-> "lo"]>>]]
Extend(start, end) ==
    [gridLineProps |-> [startExtendPixels |-> start, endExtendPixels |-> end]]

XTickAxes ==
    {l @@ g @@ m :
        l \in {NoProps, LabelCount(0), LabelCount(3), XLabelArray},
        g \in {NoProps, Extend(3, 5)},
        m \in {NoProps, NiceTrue, [visibleX |-> <<5, 40>>],
               [formatSpecifier |-> ".1f",
                labelPixelOffset |-> [horizontal |-> 2, vertical |-> -1]]}}

YTickAxes ==
    {l @@ g : l \in {NoProps, LabelCount(2), YLabelArray},
              g \in {NoProps, Extend(0, 4)}}
      \cup {[visibleY |-> <<0, 20>>]}

TickFrames ==
    {[width |-> 100, height |-> 100], [width |-> 30, height |-> 20]}

TickProps ==
    {MkProps(d, f, xa, ya, NoProps) :
        d \in Data, f \in TickFrames, xa \in XTickAxes, ya \in YTickAxes}

InitTicks == InitWith(TickProps)
SpecTicks == InitTicks /\ [][Next]_vars

\* Dots: dotProps absent, static (also with cx and cy of its own), and
\* a function returning an element or props.
DotPropsChoices ==
    {NoProps,
     [dotProps |-> [fill |-> "blue", r |-> 3]],
     [dotProps |-> [stroke |-> "black", cx |-> Q(7), cy |-> Q(9)]],
     [dotProps |-> [kind |-> "function", name |-> "toElement"]],
     [dotProps |-> [kind |-> "function", name |-> "toProps"]]}

DotProps ==
    {MkProps(d, f, xa, ya, dp) :
        d \in Data, f \in TickFrames,
        xa \in {NoProps, NiceTrue, [visibleX |-> <<5, 40>>]},
        ya \in {NoProps, [visibleY |-> <<0, 20>>]},
        dp \in DotPropsChoices}

InitDots == InitWith(DotProps)
SpecDots == InitDots /\ [][Next]_vars

\* Gridline strokes: every strokeType, with and without props of the
\* caller's own on the descriptor's keys.
StrokeTypes ==
    {NoProps} \cup {[strokeType |-> t] : t \in {"solid", "dashed", "dotted", "none"}}

XGridAxes ==
    {NoProps} \cup
    {[gridLineProps |-> t @@ c] :
        t \in StrokeTypes,
        c \in {NoProps, [stroke |-> "red"], [strokeDasharray |-> "2, 2"],
               [strokeWidth |-> 3, strokeLinecap |-> "butt", opacity |-> "0.5"]}}

YGridAxes ==
    {NoProps} \cup
    {[gridLineProps |-> g] :
        g \in {[strokeType |-> "dashed"], [strokeType |-> "none"],
               [strokeType |-> "dotted", stroke |-> "red", endExtendPixels |-> 4]}}

GridProps ==
    {MkProps(d, f, xa, ya, NoProps) :
        d \in Data, f \in {[width |-> 100, height |-> 100]},
        xa \in XGridAxes, ya \in YGridAxes}

InitGrid == InitWith(GridProps)
SpecGrid == InitGrid /\ [][Next]_vars

\* Labels: where an axis's labels go (pixelY / pixelX), their offsets
\* (an object, an object lacking vertical, functions) and text props of
\* the caller's own.
PixelNumber(n) == [kind |-> "number", n |-> n]
Location(name) == [kind |-> name]
OffsetFunction(name) == [labelPixelOffset |-> [kind |-> "function", name |-> name]]

XLabelAxes ==
    {l @@ o @@ t :
        l \in {NoProps, LabelCount(3), XLabelArray},
        o \in {NoProps,
               [labelPixelOffset |-> [horizontal |-> 2, vertical |-> -1]],
               [labelPixelOffset |-> [horizontal |-> 5]],
               OffsetFunction("byIndex"), OffsetFunction("byText")},
        t \in {NoProps, [textProps |-> [x |-> Q(99), y |-> Q(98), fontSize |-> 8]]}}
      \cup
    {l @@ [pixelY |-> y] :
        l \in {NoProps, XLabelArray},
        y \in {Location("top"), Location("bottom"), PixelNumber(0), PixelNumber(50)}}

YLabelAxes ==
    {NoProps,
     YLabelArray @@ OffsetFunction("byValue"),
     [labelPixelOffset |-> [horizontal |-> -3, vertical |-> 4],
      textProps |-> [y |-> Q(1), textAnchor |-> "middle"]],
     [pixelX |-> Location("left")], [pixelX |-> Location("right")],
     [pixelX |-> PixelNumber(0)],
     YLabelArray @@ [pixelX |-> PixelNumber(35)]}

LabelFrames ==
    {[width |-> 100, height |-> 100],
     [width |-> 100, height |-> 60, paddingTop |-> 7, paddingLeft |-> 5]}

LabelProps ==
    {MkProps(d, f, xa, ya, NoProps) :
        d \in Data, f \in LabelFrames, xa \in XLabelAxes, ya \in YLabelAxes}

InitLabels == InitWith(LabelProps)
SpecLabels == InitLabels /\ [][Next]_vars

\* Invocations one after another: the host calls LineGraph again, with
\* the same props or with others, whatever the call before returned or
\* threw.  The data are written out: the orders of two data matter here.
AgainData ==
    {<<>>, <<[x |-> 3, y |-> 26]>>,
     <<[x |-> 3, y |-> 26], [x |-> 48, y |-> -7]>>,
     <<[x |-> 48, y |-> -7], [x |-> 3, y |-> 26]>>}

AgainProps ==
    {MkProps(d, [width |-> 100, height |-> 100], xa, NoProps, dp @@ lp) :
        d \in AgainData,
        xa \in {NoProps, [visibleX |-> <<5, 40>>] @@ LabelCount(3)},
        dp \in {NoProps, [dotProps |-> [kind |-> "function", name |-> "toElement"]],
                [dotProps |-> [kind |-> "function", name |-> "toProps"]]},
        lp \in {NoProps, [lineProps |-> [kind |-> "function", name |-> "toProps"],
                          curve |-> "linear"]}}

NewProps ==
    /\ phase \in {"rendered", "rerendered", "threw"}
    /\ props' \in AgainProps
    /\ phase' = "props"
    /\ UNCHANGED out

NextAgain == Next \/ Rerender \/ NewProps

InitAgain == InitWith(AgainProps)
SpecAgain == InitAgain /\ [][NextAgain]_vars

---------------------------------------------------------------------------
(* What the properties below read from a state: the props as the caller    *)
(* gave them, and the values of the data, independently of the operators   *)
(* above.                                                                  *)

Rendered == phase = "rendered"
XA == Get(props, "xAxis", NoProps)
YA == Get(props, "yAxis", NoProps)
PadTop == Get(props, "paddingTop", 10)
PadRight == Get(props, "paddingRight", 10)
PadBottom == Get(props, "paddingBottom", 20)
PadLeft == Get(props, "paddingLeft", 20)
RectLeft == Q(PadLeft)
RectRight == Q(props.width - PadRight)
RectTop == Q(PadTop)
RectBottom == Q(props.height - PadBottom)
ProperRect == RLe(RectLeft, RectRight) /\ RLe(RectTop, RectBottom)

DataValues(key) == {props.data[i][key] : i \in 1..Len(props.data)}
Least(S) == CHOOSE m \in S : \A v \in S : m <= v
Greatest(S) == CHOOSE m \in S : \A v \in S : v <= m
Lo(d) == RMin(d[1], d[2])
Hi(d) == RMax(d[1], d[2])
InDomain(v, d) == RLe(Lo(d), v) /\ RLe(v, Hi(d))
Indices == 1..Len(props.data)

---------------------------------------------------------------------------
(* C1: within-domain data project into the chart rectangle.                *)

\* cx and cy of dot i lie in the chart rectangle as the inequalities
\* paddingLeft <= cx <= width - paddingRight, paddingTop <= cy <= height -
\* paddingBottom state it.
DotInRect(i) ==
    /\ RLe(RectLeft, out.dots[i].cx) /\ RLe(out.dots[i].cx, RectRight)
    /\ RLe(RectTop, out.dots[i].cy) /\ RLe(out.dots[i].cy, RectBottom)

DatumInDomain(i) ==
    /\ InDomain(Q(props.data[i].x), out.xScale.domain)
    /\ InDomain(Q(props.data[i].y), out.yScale.domain)

\* C1 as stated: for every width, height and padding, every datum within
\* both domains has its dot inside the chart rectangle.
C1_AnyRect ==
    Rendered => \A i \in Indices : DatumInDomain(i) => DotInRect(i)

\* C1, amended: when the paddings leave a rectangle (paddingLeft <= width -
\* paddingRight and paddingTop <= height - paddingBottom), every datum
\* within both domains has its dot inside it; the domain may be inferred,
\* given, niced or a single value.
C1_DotsInRect ==
    (Rendered /\ ProperRect) =>
        \A i \in Indices : DatumInDomain(i) => DotInRect(i)

\* A render with a proper rectangle, a niced x domain strictly wider than
\* the data, a single-valued y domain, and a datum inside both.
C1_Witness ==
    /\ Rendered /\ ProperRect
    /\ Has(XA, "nice") /\ out.xScale.domain # out.xBeforeNice.domain
    /\ out.yScale.domain[1] = out.yScale.domain[2]
    /\ \E i \in Indices : DatumInDomain(i)

---------------------------------------------------------------------------
(* C2: without visible range and nicing, min and max of the data map to    *)
(* the edges of the chart rectangle, the y axis inverted.                  *)

PlainX == ~Has(XA, "visibleX") /\ ~Has(XA, "nice")
PlainY == ~Has(YA, "visibleY") /\ ~Has(YA, "nice")

XEdges ==
    /\ ScaleApply(out.xScale, Q(Least(DataValues("x")))) = RectLeft
    /\ ScaleApply(out.xScale, Q(Greatest(DataValues("x")))) = RectRight

YEdges ==
    /\ ScaleApply(out.yScale, Q(Least(DataValues("y")))) = RectBottom
    /\ ScaleApply(out.yScale, Q(Greatest(DataValues("y")))) = RectTop

\* The example of the specification.
C2_Example ==
    (Rendered /\ props = ExampleProps) =>
        /\ ScaleApply(out.xScale, Q(0)) = Q(0)
        /\ ScaleApply(out.xScale, Q(10)) = Q(100)
        /\ ScaleApply(out.yScale, Q(0)) = Q(100)
        /\ ScaleApply(out.yScale, Q(10)) = Q(0)

\* C2 as stated: for any data.
C2_AnyData ==
    /\ (Rendered /\ PlainX) => XEdges
    /\ (Rendered /\ PlainY) => YEdges
    /\ C2_Example

\* C2, amended: on an axis where the data has at least two distinct
\* values, with no visible range and no nicing, the scale maps the least
\* value to the start of its pixel range and the greatest to its end
\* (paddingLeft and width - paddingRight for x; height - paddingBottom and
\* paddingTop for y); and the example holds as given, the explicit 0
\* paddings kept.
C2_Edges ==
    /\ (Rendered /\ PlainX /\ Cardinality(DataValues("x")) > 1) => XEdges
    /\ (Rendered /\ PlainY /\ Cardinality(DataValues("y")) > 1) => YEdges
    /\ C2_Example

C2_Witness == Rendered /\ props = ExampleProps

\* A second witness of the general part: default paddings, two distinct
\* values on both axes.
C2_WitnessDefaults ==
    /\ Rendered /\ PlainX /\ PlainY
    /\ ~Has(props, "paddingLeft") /\ ~Has(props, "paddingBottom")
    /\ Cardinality(DataValues("x")) > 1 /\ Cardinality(DataValues("y")) > 1

---------------------------------------------------------------------------
(* C3: a visible range replaces the inferred domain.                       *)

DataDomain(key) ==
    <<Q(Least(DataValues(key))), Q(Greatest(DataValues(key)))>>

\* The domain handed to each axis's scale.
C3_Domains ==
    /\ Has(XA, "visibleX") =>
          out.xBeforeNice.domain = <<Q(XA.visibleX[1]), Q(XA.visibleX[2])>>
    /\ ~Has(XA, "visibleX") => out.xBeforeNice.domain = DataDomain("x")
    /\ Has(YA, "visibleY") =>
          out.yBeforeNice.domain = <<Q(YA.visibleY[1]), Q(YA.visibleY[2])>>
    /\ ~Has(YA, "visibleY") => out.yBeforeNice.domain = DataDomain("y")

XOutsideVisible(i) ==
    Has(XA, "visibleX")
      /\ ~InDomain(Q(props.data[i].x), <<Q(XA.visibleX[1]), Q(XA.visibleX[2])>>)
YOutsideVisible(i) ==
    Has(YA, "visibleY")
      /\ ~InDomain(Q(props.data[i].y), <<Q(YA.visibleY[1]), Q(YA.visibleY[2])>>)

\* The dot's coordinate lies outside the chart rectangle's extent.
CxOutside(i) == ~RBetween(out.dots[i].cx, RectLeft, RectRight)
CyOutside(i) == ~RBetween(out.dots[i].cy, RectTop, RectBottom)

\* C3 as stated: the domains, and every datum outside a visible range
\* projected outside the rectangle.
C3_AlwaysOutside ==
    Rendered =>
        /\ C3_Domains
        /\ \A i \in Indices :
              /\ XOutsideVisible(i) => CxOutside(i)
              /\ YOutsideVisible(i) => CyOutside(i)

\* C3, amended: the domain handed to an axis's scale is the visible range
\* when one is supplied and [min, max] of the data otherwise; nothing is
\* clamped, so a datum outside the scale's final domain (the visible
\* range, widened by nicing if any) is projected outside the chart
\* rectangle, provided that domain has two distinct ends and the
\* rectangle a non-zero extent on that axis.
C3_VisibleOverrides ==
    Rendered =>
        /\ C3_Domains
        /\ \A i \in Indices :
              /\ (XOutsideVisible(i)
                    /\ ~InDomain(Q(props.data[i].x), out.xScale.domain)
                    /\ out.xScale.domain[1] # out.xScale.domain[2]
                    /\ RectLeft # RectRight)
                 => CxOutside(i)
              /\ (YOutsideVisible(i)
                    /\ ~InDomain(Q(props.data[i].y), out.yScale.domain)
                    /\ out.yScale.domain[1] # out.yScale.domain[2]
                    /\ RectTop # RectBottom)
                 => CyOutside(i)

\* A render with a visible x range that differs from the data's and a
\* datum outside it, drawn outside the rectangle.
C3_Witness ==
    /\ Rendered /\ Has(XA, "visibleX") /\ Len(props.data) > 0
    /\ <<Q(XA.visibleX[1]), Q(XA.visibleX[2])>> # DataDomain("x")
    /\ \E i \in Indices : XOutsideVisible(i) /\ CxOutside(i)

---------------------------------------------------------------------------
(* C4: nicing never narrows a domain.                                      *)

Contains(outer, inner) == RLe(Lo(outer), Lo(inner)) /\ RLe(Hi(inner), Hi(outer))

\* C4: the final domain of each axis contains the pre-nice domain, as
\* intervals, whatever the nice option is; with nice absent the two are
\* equal.
C4_NiceWidens ==
    Rendered =>
        /\ Contains(out.xScale.domain, out.xBeforeNice.domain)
        /\ Contains(out.yScale.domain, out.yBeforeNice.domain)
        /\ ~Has(XA, "nice") => out.xScale.domain = out.xBeforeNice.domain
        /\ ~Has(YA, "nice") => out.yScale.domain = out.yBeforeNice.domain

\* A render where nice: true widened x at both ends and a numeric nice
\* widened y, and one where an un-niced axis sits beside them.
C4_Witness ==
    /\ Rendered
    /\ Has(XA, "nice") /\ XA.nice.kind = "true"
    /\ RLt(Lo(out.xScale.domain), Lo(out.xBeforeNice.domain))
    /\ RLt(Hi(out.xBeforeNice.domain), Hi(out.xScale.domain))
    /\ Has(YA, "nice") /\ YA.nice.kind = "number"
    /\ out.yScale.domain # out.yBeforeNice.domain

---------------------------------------------------------------------------
(* C8: empty data.                                                         *)

EmptyData == Len(props.data) = 0

\* C8: the render throws exactly when data is empty and an axis has no
\* visible range; the error leaves x's domain inference when x has none,
\* and y's when x has one and y has none; no render takes the `|| []`
\* operand; with empty data and both visible ranges the render completes
\* with zero dots.
C8_EmptyData ==
    /\ phase = "threw" <=>
          (phase # "props" /\ EmptyData
             /\ (~Has(XA, "visibleX") \/ ~Has(YA, "visibleY")))
    /\ phase = "threw" =>
          /\ out.error = "xDomain" <=> ~Has(XA, "visibleX")
          /\ out.error = "yDomain" <=> (Has(XA, "visibleX") /\ ~Has(YA, "visibleY"))
    /\ Rendered =>
          /\ out.xDomainSource # "emptyArray"
          /\ out.xDomainSource = "visibleX" <=> Has(XA, "visibleX")
          /\ Len(out.dots) = Len(props.data)

\* Empty data with both visible ranges: rendered, no dots.
C8_Witness ==
    /\ Rendered /\ EmptyData /\ Len(out.dots) = 0
    /\ Has(XA, "visibleX") /\ Has(YA, "visibleY")

\* Empty data with a visible x range only: the error comes from y.
C8_WitnessThrowsY == phase = "threw" /\ out.error = "yDomain"

---------------------------------------------------------------------------
(* C5: a tick's gridline meets the axis where the tick is.                 *)

XTickIndices == 1..Len(out.xAxisTicks)
YTickIndices == 1..Len(out.yAxisTicks)

\* C5: both endpoints of an x tick's gridline, and the rendered line, have
\* the tick's pixelX = xScale(x), where the label is placed (shifted only
\* by a labelPixelOffset); the same for a y tick and pixelY = yScale(y);
\* for labels given and for ticks of the scale.
C5_GridLineAtTick ==
    Rendered =>
        /\ \A i \in XTickIndices :
              LET t == out.xAxisTicks[i]
              IN  /\ t.pixelX = ScaleApply(out.xScale, t.x)
                  /\ t.gridLine.p1.pixelX = t.pixelX
                  /\ t.gridLine.p2.pixelX = t.pixelX
                  /\ out.xGridLines[i].x1 = t.pixelX
                  /\ out.xGridLines[i].x2 = t.pixelX
                  /\ ~Has(XA, "labelPixelOffset") => t.textProps.x = t.pixelX
        /\ \A i \in YTickIndices :
              LET t == out.yAxisTicks[i]
              IN  /\ t.pixelY = ScaleApply(out.yScale, t.y)
                  /\ t.gridLine.p1.pixelY = t.pixelY
                  /\ t.gridLine.p2.pixelY = t.pixelY
                  /\ out.yGridLines[i].y1 = t.pixelY
                  /\ out.yGridLines[i].y2 = t.pixelY
                  /\ ~Has(YA, "labelPixelOffset") => t.textProps.y = t.pixelY

\* A render with ticks of the scale on x, labels given on y, and gridline
\* extensions on the x axis.
C5_Witness ==
    /\ Rendered
    /\ ~Has(XA, "labels") /\ Len(out.xAxisTicks) > 1
    /\ Has(XA, "gridLineProps")
    /\ Has(YA, "labels") /\ YA.labels.kind = "array" /\ Len(out.yAxisTicks) = 2

---------------------------------------------------------------------------
(* C6: a gridline spans the chart's extent across the axis.                *)

GridExtend(axis, key) ==
    IF Has(axis, "gridLineProps") /\ Has(axis.gridLineProps, key)
    THEN axis.gridLineProps[key] ELSE 0

XLineSpans(t) ==
    /\ t.gridLine.p1.pixelY = Q(PadTop - GridExtend(XA, "startExtendPixels"))
    /\ t.gridLine.p2.pixelY =
          Q((props.height - PadBottom) + GridExtend(XA, "endExtendPixels"))

YLineSpans(t) ==
    /\ t.gridLine.p1.pixelX = Q(PadLeft - GridExtend(YA, "startExtendPixels"))
    /\ t.gridLine.p2.pixelX =
          Q((props.width - PadRight) + GridExtend(YA, "endExtendPixels"))

\* C6: every x tick's gridline runs from paddingTop - startExtendPixels to
\* (height - paddingBottom) + endExtendPixels, every y tick's from
\* paddingLeft - startExtendPixels to (width - paddingRight) +
\* endExtendPixels, for any non-empty data.
C6_GridLineSpans ==
    (Rendered /\ ~EmptyData) =>
        /\ \A i \in XTickIndices : XLineSpans(out.xAxisTicks[i])
        /\ \A i \in YTickIndices : YLineSpans(out.yAxisTicks[i])

\* What the code does do: the span holds across an axis whose scale has a
\* domain of two distinct ends and a pixel range of non-zero length.
TwoEnds(scale) ==
    scale.domain[1] # scale.domain[2] /\ scale.range[1] # scale.range[2]

C6_SpansWhenInvertible ==
    Rendered =>
        /\ TwoEnds(out.yScale) => \A i \in XTickIndices : XLineSpans(out.xAxisTicks[i])
        /\ TwoEnds(out.xScale) => \A i \in YTickIndices : YLineSpans(out.yAxisTicks[i])

---------------------------------------------------------------------------
(* C7: the ticks of an axis.                                               *)

\* The ticks the options of an axis ask for: the labels themselves, or
\* the scale's ticks for the count with the scale's formatter's text.
ExpectedTicks(axis, scale, key) ==
    IF Has(axis, "labels") /\ axis.labels.kind = "array"
    THEN [i \in 1..Len(axis.labels.labels) |->
            [value |-> Q(axis.labels.labels[i][key]),
             text |-> axis.labels.labels[i].text]]
    ELSE LET n == IF Has(axis, "labels") THEN axis.labels.n ELSE Len(props.data)
             values == scaleTicks(scale.domain, n)
         IN  [i \in 1..Len(values) |->
                [value |-> values[i],
                 text |-> [format |-> tickFormat(scale, n, axis),
                           value |-> values[i]]]]

\* C7: an axis's ticks are its labels, one per label and in their order,
\* each with the label's text and the pixel scale(value); or, for a count
\* n (data.length when labels is absent), the scale's ticks for n with
\* the text of the scale's formatter for (n, formatSpecifier).
C7_Ticks ==
    Rendered =>
        /\ LET e == ExpectedTicks(XA, out.xScale, "x")
           IN  /\ Len(out.xAxisTicks) = Len(e)
               /\ \A i \in 1..Len(e) :
                     /\ out.xAxisTicks[i].x = e[i].value
                     /\ out.xAxisTicks[i].text = e[i].text
                     /\ out.xAxisTicks[i].pixelX = ScaleApply(out.xScale, e[i].value)
        /\ LET e == ExpectedTicks(YA, out.yScale, "y")
           IN  /\ Len(out.yAxisTicks) = Len(e)
               /\ \A i \in 1..Len(e) :
                     /\ out.yAxisTicks[i].y = e[i].value
                     /\ out.yAxisTicks[i].text = e[i].text
                     /\ out.yAxisTicks[i].pixelY = ScaleApply(out.yScale, e[i].value)

\* A render with labels given on x and a count on y.
C7_Witness ==
    /\ Rendered
    /\ Has(XA, "labels") /\ XA.labels.kind = "array"
    /\ Len(out.xAxisTicks) = 2 /\ out.xAxisTicks[2].text = "b"
    /\ Has(YA, "labels") /\ YA.labels.kind = "number"
    /\ Len(out.yAxisTicks) > 1

\* A render with a count of 0 on x (no ticks) and no labels on y, the data
\* of length 2 giving the count.
C7_WitnessCounts ==
    /\ Rendered /\ Len(props.data) = 2
    /\ Has(XA, "labels") /\ XA.labels.kind = "number" /\ XA.labels.n = 0
    /\ Len(out.xAxisTicks) = 0
    /\ ~Has(YA, "labels") /\ Len(out.yAxisTicks) > 0

---------------------------------------------------------------------------
(* C9: the dots.                                                           *)

DotProp == Get(props, "dotProps", NoProps)

\* C9: one dot per datum, in order.  A dotProps function gets (datum,
\* xScale(d.x), yScale(d.y), i); an element it returns is the dot; any
\* other dot has cx = xScale(d.x), cy = yScale(d.y) whatever the caller
\* gave, the caller's value for every other prop the caller gave, and the
\* defaults' value (fill 'lightgray', stroke 'darkslategrey', strokeWidth
\* 1, r 5) for the rest.
C9_Dots ==
    Rendered =>
        /\ Len(out.dots) = Len(props.data)
        /\ \A i \in Indices :
              LET d == props.data[i]
                  x == ScaleApply(out.xScale, Q(d.x))
                  y == ScaleApply(out.yScale, Q(d.y))
                  dot == out.dots[i]
                  called == Has(DotProp, "kind") /\ DotProp.kind = "function"
                  given == IF called
                           THEN [fill |-> "red", args |-> <<d, x, y, i - 1>>]
                           ELSE DotProp
              IN  IF called /\ DotProp.name = "toElement"
                  THEN dot = [kind |-> "element", args |-> <<d, x, y, i - 1>>]
                  ELSE /\ DOMAIN dot = {"fill", "stroke", "strokeWidth", "r"}
                              \cup DOMAIN given \cup {"cx", "cy", "key"}
                       /\ dot.cx = x /\ dot.cy = y
                       /\ \A k \in DOMAIN given \ {"cx", "cy", "key"} :
                             dot[k] = given[k]
                       /\ dot.fill = Get(given, "fill", "lightgray")
                       /\ dot.stroke = Get(given, "stroke", "darkslategrey")
                       /\ dot.strokeWidth = Get(given, "strokeWidth", 1)
                       /\ dot.r = Get(given, "r", 5)

\* A render of two dots whose caller gave cx and cy of its own, off the
\* projected place.
C9_Witness ==
    /\ Rendered /\ Len(out.dots) = 2
    /\ Has(DotProp, "cx") /\ out.dots[2].cx # DotProp.cx
    /\ out.dots[2].stroke = "black"

\* A render of two dots through a function returning elements, and one
\* through a function returning props.
C9_WitnessElement ==
    /\ Rendered /\ Len(out.dots) = 2
    /\ Has(DotProp, "kind") /\ DotProp.name = "toElement"
    /\ out.dots[2].kind = "element" /\ out.dots[2].args[4] = 1

C9_WitnessFunctionProps ==
    /\ Rendered /\ Len(out.dots) = 2
    /\ Has(DotProp, "kind") /\ DotProp.name = "toProps"
    /\ out.dots[2].args[4] = 1 /\ out.dots[2].cx # Q(-1)

---------------------------------------------------------------------------
(* C10: the stroke of the gridlines.                                       *)

\* The descriptor of each stroke type, as the documentation gives it.
StrokeDescriptor(gridLineProps) ==
    LET t == Get(gridLineProps, "strokeType", "solid")
    IN  CASE t = "dashed" -> [strokeDasharray |-> "5, 5"]
          [] t = "dotted" -> [strokeDasharray |-> "1, 5", strokeLinecap |-> "round",
                              strokeWidth |-> 2]
          [] t = "none"   -> [stroke |-> "#0000"]
          [] OTHER        -> NoProps

LineCoordinates == {"x1", "x2", "y1", "y2"}

\* The props of a gridline, from the defaults, the descriptor and the
\* caller's gridLineProps in that order: the last to give a key wins.
LineMerged(line, gridLineProps) ==
    LET descriptor == StrokeDescriptor(gridLineProps)
    IN  /\ DOMAIN line = LineCoordinates \cup {"stroke"} \cup DOMAIN descriptor
                            \cup DOMAIN gridLineProps
        /\ \A k \in DOMAIN line \ LineCoordinates :
              line[k] = IF k \in DOMAIN gridLineProps THEN gridLineProps[k]
                        ELSE IF k \in DOMAIN descriptor THEN descriptor[k]
                        ELSE "lightgray"

XGridProps == Get(XA, "gridLineProps", NoProps)
YGridProps == Get(YA, "gridLineProps", NoProps)

\* C10, as stated: for any gridLineProps every gridline carries the
\* descriptor of its strokeType; 'solid' or no strokeType adds no pattern
\* and leaves the stroke as it was.
CarriesDescriptor(line, gridLineProps) ==
    LET descriptor == StrokeDescriptor(gridLineProps)
    IN  /\ \A k \in DOMAIN descriptor : line[k] = descriptor[k]
        /\ descriptor = NoProps =>
              /\ ~Has(gridLineProps, "stroke") => line.stroke = "lightgray"
              /\ ~Has(gridLineProps, "strokeDasharray") =>
                    ~Has(line, "strokeDasharray")

C10_AnyGridLineProps ==
    Rendered =>
        /\ \A i \in XTickIndices : CarriesDescriptor(out.xGridLines[i], XGridProps)
        /\ \A i \in YTickIndices : CarriesDescriptor(out.yGridLines[i], YGridProps)

\* C10: every gridline of an axis has the props of the defaults (stroke
\* 'lightgray'), then the descriptor of the axis's strokeType, then the
\* caller's gridLineProps, merged in that order: it carries the
\* descriptor -- 'dashed' strokeDasharray '5, 5'; 'dotted' strokeDasharray
\* '1, 5', strokeLinecap 'round', strokeWidth 2; 'none' stroke '#0000';
\* 'solid' or absent nothing, so the stroke stays 'lightgray' -- under
\* whatever the caller's gridLineProps set themselves.
C10_Stroke ==
    Rendered =>
        /\ Len(out.xGridLines) = Len(out.xAxisTicks)
        /\ Len(out.yGridLines) = Len(out.yAxisTicks)
        /\ \A i \in XTickIndices : LineMerged(out.xGridLines[i], XGridProps)
        /\ \A i \in YTickIndices : LineMerged(out.yGridLines[i], YGridProps)

\* A render with dotted gridlines on x, the caller giving a width of its
\* own, and dashed gridlines on y.
C10_Witness ==
    /\ Rendered
    /\ Get(XGridProps, "strokeType", "solid") = "dotted"
    /\ Has(XGridProps, "strokeWidth")
    /\ Len(out.xGridLines) > 1
    /\ out.xGridLines[1].strokeDasharray = "1, 5"
    /\ out.xGridLines[1].strokeWidth = 3
    /\ Get(YGridProps, "strokeType", "solid") = "dashed"
    /\ Len(out.yGridLines) > 1
    /\ out.yGridLines[1].strokeDasharray = "5, 5"

\* Renders with stroke type 'none' and with no stroke type, the caller
\* setting no stroke.
C10_WitnessNone ==
    /\ Rendered /\ Len(out.xGridLines) > 0 /\ Len(out.yGridLines) > 0
    /\ Get(XGridProps, "strokeType", "absent") = "absent"
    /\ out.xGridLines[1].stroke = "lightgray"
    /\ Get(YGridProps, "strokeType", "solid") = "none"
    /\ out.yGridLines[1].stroke = "#0000"

---------------------------------------------------------------------------
(* C11: where a tick's label text is put.                                  *)

\* The offset the options of an axis give the tick of index i (from 0):
\* the function's answer for the tick's label (its value and its text)
\* and i, the object when it has both numbers, else none.
ExpectedOffset(axis, value, text, i) ==
    IF ~Has(axis, "labelPixelOffset")
    THEN [horizontal |-> Q(0), vertical |-> Q(0)]
    ELSE LET o == axis.labelPixelOffset
         IN  IF Has(o, "kind") /\ o.kind = "function"
             THEN callPixelOffset(o, [value |-> value, text |-> text], i)
             ELSE IF {"horizontal", "vertical"} \subseteq DOMAIN o
             THEN [horizontal |-> Q(o.horizontal), vertical |-> Q(o.vertical)]
             ELSE [horizontal |-> Q(0), vertical |-> Q(0)]

\* C11: the text of the tick of index i is at (pixelX + offset.horizontal,
\* pixelY + offset.vertical), the offset being labelPixelOffset(label, i)
\* for a function (the label of a tick of the scale having the formatted
\* text), labelPixelOffset for an object with both numbers, else (0, 0);
\* whatever x and y the caller's textProps give.
C11_LabelPlace ==
    Rendered =>
        /\ \A i \in XTickIndices :
              LET t == out.xAxisTicks[i]
                  o == ExpectedOffset(XA, t.x, t.text, i - 1)
              IN  /\ t.textProps.x = RAdd(t.pixelX, o.horizontal)
                  /\ t.textProps.y = RAdd(t.pixelY, o.vertical)
        /\ \A i \in YTickIndices :
              LET t == out.yAxisTicks[i]
                  o == ExpectedOffset(YA, t.y, t.text, i - 1)
              IN  /\ t.textProps.x = RAdd(t.pixelX, o.horizontal)
                  /\ t.textProps.y = RAdd(t.pixelY, o.vertical)

\* A render with labels given on x, an offset function reading the text,
\* and textProps of the caller's with an x and a y of their own.
C11_Witness ==
    /\ Rendered
    /\ Has(XA, "labels") /\ XA.labels.kind = "array"
    /\ Has(XA, "labelPixelOffset") /\ Has(XA.labelPixelOffset, "kind")
    /\ XA.labelPixelOffset.name = "byText"
    /\ Has(XA, "textProps")
    /\ Len(out.xAxisTicks) = 2
    /\ out.xAxisTicks[2].textProps.x = RAdd(out.xAxisTicks[2].pixelX, Q(7))
    /\ out.xAxisTicks[2].textProps.x # XA.textProps.x
    /\ out.xAxisTicks[2].textProps.fontSize = 8

\* A render with ticks of the scale on x and an offset function reading
\* the text: the function got a formatted text.
C11_WitnessFormatted ==
    /\ Rendered
    /\ ~Has(XA, "labels")
    /\ Has(XA, "labelPixelOffset") /\ Has(XA.labelPixelOffset, "kind")
    /\ XA.labelPixelOffset.name = "byText"
    /\ Len(out.xAxisTicks) > 1
    /\ out.xAxisTicks[2].textProps.x = RAdd(out.xAxisTicks[2].pixelX, Q(8))
    /\ out.xAxisTicks[2].textProps.y = RAdd(out.xAxisTicks[2].pixelY, Q(1))

\* A render with an offset object lacking vertical on x (no offset) and
\* an offset object on y.
C11_WitnessObjects ==
    /\ Rendered
    /\ Has(XA, "labelPixelOffset") /\ DOMAIN XA.labelPixelOffset = {"horizontal"}
    /\ Len(out.xAxisTicks) > 0
    /\ out.xAxisTicks[1].textProps.x = out.xAxisTicks[1].pixelX
    /\ Has(YA, "labelPixelOffset") /\ Has(YA.labelPixelOffset, "vertical")
    /\ Len(out.yAxisTicks) > 0
    /\ out.yAxisTicks[1].textProps.y = RAdd(out.yAxisTicks[1].pixelY, Q(4))

---------------------------------------------------------------------------
(* C12: the output is a function of the props.                             *)

HasReturned == phase \in {"rendered", "rerendered"}

\* C12: a call with the props of the call before returns what that call
\* returned -- scales, dots and the keys of their elements, path, ticks,
\* gridlines -- and what any call returns is the one tree its props can
\* give, whatever was called, returned or thrown before.
C12_Pure ==
    [][/\ (HasReturned /\ phase' = "rerendered") => out' = out
       /\ phase' \in {"rendered", "rerendered"} =>
             LineGraphElements(props') = {out'}]_vars

\* A second call with the same props has returned, with two dots whose
\* elements have keys, a path and ticks.
C12_Witness ==
    /\ phase = "rerendered"
    /\ Len(out.circles) = 2
    /\ Has(out.circles[2], "key")
    /\ out.path.stroke = "blue"
    /\ Len(out.xAxisTicks) > 1
    /\ props.data[1].x = 48

---------------------------------------------------------------------------
(* C13: where the labels of an axis go.                                    *)

\* The pixelY the x axis's options ask for, and the pixelX and the anchor
\* the y axis's ask for, a number being taken as it is.
AskedPixelY ==
    IF ~Has(XA, "pixelY") THEN (props.height - PadBottom) + 12
    ELSE IF XA.pixelY.kind = "number" THEN XA.pixelY.n
    ELSE IF XA.pixelY.kind = "top" THEN PadTop - 4
    ELSE (props.height - PadBottom) + 12

AskedPixelX ==
    IF ~Has(YA, "pixelX") THEN PadLeft - 4
    ELSE IF YA.pixelX.kind = "number" THEN YA.pixelX.n
    ELSE IF YA.pixelX.kind = "right" THEN (props.width - PadRight) + 4
    ELSE PadLeft - 4

AskedAnchor ==
    IF Has(YA, "pixelX") /\ YA.pixelX.kind \in {"number", "right"}
    THEN "start" ELSE "end"

AnchorGiven == Has(YA, "textProps") /\ Has(YA.textProps, "textAnchor")

TicksAtAsked ==
    /\ \A i \in XTickIndices : out.xAxisTicks[i].pixelY = Q(AskedPixelY)
    /\ \A i \in YTickIndices :
          /\ out.yAxisTicks[i].pixelX = Q(AskedPixelX)
          /\ ~AnchorGiven => out.yAxisTicks[i].textProps.textAnchor = AskedAnchor

\* C13: a number p for xAxis.pixelY, 0 too, puts every x tick at pixelY =
\* p, and a number p for yAxis.pixelX, 0 too, every y tick at pixelX = p
\* with anchor 'start'; else 'top' is paddingTop - 4, 'bottom' or nothing
\* (height - paddingBottom) + 12, 'left' or nothing paddingLeft - 4 with
\* anchor 'end', 'right' (width - paddingRight) + 4 with anchor 'start'.
C13_AnyNumber == Rendered => TicksAtAsked

\* What the code does do: the same, for every number but 0.
ZeroAsked ==
    \/ Has(XA, "pixelY") /\ XA.pixelY.kind = "number" /\ XA.pixelY.n = 0
    \/ Has(YA, "pixelX") /\ YA.pixelX.kind = "number" /\ YA.pixelX.n = 0

C13_NumbersButZero == (Rendered /\ ~ZeroAsked) => TicksAtAsked

===========================================================================
